---- MODULE Spec2Model ----
(***************************************************************************)
(* Model of rag_shared.logging: the request-scoped context store           *)
(* (request_context, RequestContext, add_context, clear_context), the      *)
(* structured JSON formatter, configure_logging(), the stage() timing      *)
(* helper; and of rag_shared.dragonfly: DragonflyClient and the factory    *)
(* get_dragonfly_client().                                                 *)
(***************************************************************************)
EXTENDS Integers, Sequences, FiniteSets, TLC

(***************************************************************************)
(* Bounds of the model.                                                    *)
(***************************************************************************)
\* deepest nesting of RequestContext scopes one flow holds at a time
MaxDepth == 2

\* the monotonic clock (time.perf_counter, in microseconds) stops advancing here
MaxClock == 30

\* the most fields the wrapped work puts into the dictionary stage() yields
MaxPuts == 2

\* the most calls of get_dragonfly_client() the threads of the process make
MaxCalls == 4

(***************************************************************************)
(* Mappings (Python dicts) are functions from a finite set of string keys  *)
(* to string values.                                                       *)
(***************************************************************************)
EmptyMap == [k \in {} |-> ""]

\* {**m1, **m2}: keys of m2 are added, same-named keys take m2's value
Merge(m1, m2) ==
    [k \in (DOMAIN m1) \cup (DOMAIN m2) |-> IF k \in DOMAIN m2 THEN m2[k] ELSE m1[k]]

\* the set of key/value pairs of a mapping
Pairs(m) == {<<k, m[k]>> : k \in DOMAIN m}

\* the concurrent flows (threads / tasks), each with its own Context
Flows == {"A", "B"}

\* the flow whose calls are followed in full detail
MainFlow == "A"

\* keyword arguments given to RequestContext(**context)
ScopeFields == { [a |-> "1"], [a |-> "2", b |-> "2"], EmptyMap }

\* the scopes each of two interleaved flows enters: different fields, one key
\* in common
ScopeFieldsOf(f) == IF f = "A" THEN { [a |-> "1"] } ELSE { [a |-> "2", b |-> "2"] }

\* keyword arguments given to add_context(**context)
AddFields == { [b |-> "3"] }

VARIABLES
    ctxvar,       \* request_context: per flow, [set, val]; set = FALSE when the
                  \* variable has no value in the flow's Context
    default_map,  \* the mapping object given as default= at line 42
    active,       \* per flow, the RequestContext objects entered and not yet
                  \* exited, in order of entry; each [context, _token] plus
                  \* before, the snapshot the flow read just before the enter
    hist,         \* per flow, history of the calls made so far (see HistInit)
    last,         \* the call that produced the current state
    clock,        \* time.perf_counter(), in microseconds
    stg,          \* the stage() call in progress: its position and locals
    records,      \* the log records the stage() call has emitted, in order
    caller_exc,   \* the exception the stage() call let through to its caller
    levels,       \* the level set on each logger (NOTSET when none was set)
    root_handlers,\* the handlers of the root logger, each with its formatter
    environ,      \* os.environ, as far as configure_logging() reads it
    written,      \* the last logger call and the lines it wrote to stdout
    configured,   \* the arguments of the last configure_logging() call
    server,       \* the Dragonfly server: "up", "unreachable" or "failing"
    kv,           \* the keys the server holds, each with value and ttl
    _client,      \* DragonflyClient._client: whether the Redis object exists
    df_last,      \* the last DragonflyClient call, its inputs and outcome
    df_failed,    \* whether a DragonflyClient call has failed so far
    _default_client, \* the module global: None, or the shared client object
    objects,      \* the DragonflyClient objects created so far, in order; an
                  \* object is known by its position
    threads,      \* per thread, its get_dragonfly_client() call: position,
                  \* locals and the object it returned last
    fact          \* history of the factory calls (see NoFactoryCall)

ctxVars == <<ctxvar, default_map, active, hist, last>>

stageVars == <<clock, stg, records, caller_exc>>

confVars == <<levels, root_handlers, environ, written, configured>>

clientVars == <<server, kv, _client, df_last, df_failed>>

factoryVars == <<_default_client, objects, threads, fact>>

cacheVars == <<clientVars, factoryVars>>

vars == <<ctxvar, default_map, active, hist, last, clock, stg, records, caller_exc,
          levels, root_handlers, environ, written, configured,
          server, kv, _client, df_last, df_failed,
          _default_client, objects, threads, fact>>

(***************************************************************************)
(* contextvars.ContextVar as used by the module.                           *)
(***************************************************************************)
\* a variable with no value in a flow's Context (Token.MISSING as old value)
Missing == [set |-> FALSE, val |-> EmptyMap]

\* request_context.get(default): the argument default is returned when the
\* variable has no value in the calling flow; the default= mapping of the
\* ContextVar is never consulted because an argument is always given
ContextVarGet(cv, f, default) == IF cv[f].set THEN cv[f].val ELSE default

\* request_context.set(value) in flow f
ContextVarSetGlobal(cv, f, value) == [g \in Flows |-> [set |-> TRUE, val |-> value]]

ContextVarSet(cv, f, value) == [cv EXCEPT ![f] = [set |-> TRUE, val |-> value]]

\* the Token returned by set(): it remembers the old value (or MISSING)
ContextVarToken(cv, f) == cv[f]

\* request_context.reset(token) in flow f: the old value comes back, and a
\* variable that had no value has none again
ContextVarResetNoMissing(cv, f, token) ==
    IF token.set THEN [cv EXCEPT ![f] = token] ELSE cv

ContextVarReset(cv, f, token) == [cv EXCEPT ![f] = token]

\* the snapshot a flow reads: request_context.get({})
Snapshot(f) == ContextVarGet(ctxvar, f, EmptyMap)

(***************************************************************************)
(* History kept for stating the properties: not program state.             *)
(*   lifo  - every exit so far closed the innermost active scope           *)
(*   pure  - only enter/exit were called so far (no add/clear_context)     *)
(*   added - the key/value pairs given to add_context so far               *)
(*   exited - the key/value pairs of the scopes exited so far              *)
(***************************************************************************)
HistInit ==
    [lifo |-> TRUE, pure |-> TRUE, added |-> {}, exited |-> {},
     inside |-> <<>>, outside |-> {}, left |-> {}]

\* a log call that was not made, and a record that was not produced
NoLogCall == [extra |-> EmptyMap, recording |-> FALSE, exc_info |-> FALSE]

NoRecord == EmptyMap

\* last: op, the calling flow, exc (the scope body ended by an exception),
\* and for a log call its arguments, the formatted record it wrote, the
\* exception it raised ("" when none), dropped (the handler could not format
\* the record and wrote nothing), at (the clock at the call) and again (the
\* result of formatting the same record once more)
Called(op, f, exc) ==
    [op |-> op, flow |-> f, exc |-> exc,
     call |-> NoLogCall, out |-> NoRecord, raised |-> "",
     dropped |-> FALSE, at |-> 0, again |-> NoRecord]

NoCall == Called("none", "A", FALSE)

\* no exception; an exception is [type, msg, ordinary], ordinary telling
\* whether its class derives from Exception
NoException == [type |-> "", msg |-> "", ordinary |-> FALSE]

\* no stage() call is in progress
StageIdle ==
    [pc |-> "idle", operation |-> "", log_start |-> FALSE,
     stage_context |-> EmptyMap, start_time |-> 0, puts |-> 0,
     outcome |-> "", raised |-> NoException]

\* the levels of the logging module
LevelNo == [NOTSET |-> 0, DEBUG |-> 10, INFO |-> 20, WARNING |-> 30, ERROR |-> 40]

\* the loggers of the process: the root logger, an application logger, and
\* the loggers configure_logging() quiets, with a child of one of them
LoggerNames == {"root", "app", "urllib3", "urllib3.pool", "httpx", "httpcore"}

\* no logger call was made yet
NothingWritten == [made |-> FALSE, name |-> "", levelname |-> "", lines |-> <<>>]

\* configure_logging() was not called yet
NotConfigured ==
    [done |-> FALSE, service_name |-> "", log_level |-> "", json_output |-> FALSE,
     LOG_LEVEL |-> ""]

\* the keys used with the cache, and a key the server does not hold
CacheKeys == {"k1", "k2"}

Absent == [present |-> FALSE, value |-> [pickled |-> ""], ttl |-> 0]

\* what a DragonflyClient method returns: a bool, None, the data, an int or
\* a list of keys
ResBool(b) == [kind |-> "bool", b |-> b, v |-> "", n |-> 0, l |-> {}]

ResNone == [kind |-> "None", b |-> FALSE, v |-> "", n |-> 0, l |-> {}]

ResData(v) == [kind |-> "data", b |-> FALSE, v |-> v, n |-> 0, l |-> {}]

ResInt(n) == [kind |-> "int", b |-> FALSE, v |-> "", n |-> n, l |-> {}]

ResList(l) == [kind |-> "list", b |-> FALSE, v |-> "", n |-> 0, l |-> l]

\* no DragonflyClient method was called yet
NoCacheCall ==
    [made |-> FALSE, op |-> "", key |-> "", data |-> "", ttl |-> 0,
     server |-> "up", before |-> Absent, held |-> {},
     result |-> ResNone, raised |-> "", errors |-> 0]

\* line 266: _default_client = None; an object is a position in objects
None == 0

\* the threads of the process that call the factory
Threads == {"t1", "t2"}

\* a thread that is not inside get_dragonfly_client(): result is the object
\* its last call returned (None before its first call)
ThreadIdle ==
    [pc |-> "idle", singleton |-> TRUE,
     config |-> [host |-> "", port |-> 0, default_ttl |-> 0], result |-> None]

\* fact: calls started, the objects that calls with singleton=True returned,
\* the objects stored in _default_client, and overlapped: a call with
\* singleton=True started while another thread was inside such a call
NoFactoryCall == [calls |-> 0, returned |-> {}, shared |-> {}, overlapped |-> FALSE]

Init ==
    /\ ctxvar = [f \in Flows |-> Missing]
    /\ default_map = EmptyMap
    /\ active = [f \in Flows |-> <<>>]
    /\ hist = [f \in Flows |-> HistInit]
    /\ last = NoCall
    /\ clock = 0
    /\ stg = StageIdle
    /\ records = <<>>
    /\ caller_exc = NoException
    /\ levels = [n \in LoggerNames |-> IF n = "root" THEN LevelNo["WARNING"]
                                       ELSE LevelNo["NOTSET"]]
    /\ root_handlers = <<>>
    /\ environ = EmptyMap
    /\ written = NothingWritten
    /\ configured = NotConfigured
    /\ server = "up"
    /\ kv = [k \in CacheKeys |-> Absent]
    /\ _client = FALSE
    /\ df_last = NoCacheCall
    /\ df_failed = FALSE
    /\ _default_client = None
    /\ objects = <<>>
    /\ threads = [t \in Threads |-> ThreadIdle]
    /\ fact = NoFactoryCall

(***************************************************************************)
(* RequestContext                                                          *)
(***************************************************************************)
\* line 212: merged = {**existing, **self.context}
EnterMergedOuterWins(existing, context) == Merge(context, existing)

EnterMerged(existing, context) == Merge(existing, context)

\* RequestContext(**context).__enter__() in flow f
RequestContextEnter(f, context) ==
    /\ Len(active[f]) < MaxDepth
    /\ LET existing == ContextVarGet(ctxvar, f, EmptyMap)
           merged   == EnterMerged(existing, context)
           token    == ContextVarToken(ctxvar, f)
       IN /\ ctxvar' = ContextVarSet(ctxvar, f, merged)
          /\ active' = [active EXCEPT ![f] =
                           Append(@, [context |-> context, _token |-> token,
                                      before |-> Snapshot(f)])]
    /\ last' = Called("enter", f, FALSE)
    /\ UNCHANGED <<default_map, stageVars, confVars, cacheVars>>

\* the sequence s without its i-th element
RemoveAt(s, i) == [j \in 1..(Len(s) - 1) |-> IF j < i THEN s[j] ELSE s[j + 1]]

\* lines 217-218: the reset of __exit__
ExitResetSkipped(cv, f, token) == cv

ExitReset(cv, f, token) == ContextVarReset(cv, f, token)

\* __exit__(exc_type, exc_val, exc_tb) of the i-th active scope of flow f;
\* exc tells whether the body ended by a raised exception. The arguments are
\* ignored and None is returned, so the exception goes on to the caller.
RequestContextExit(f, i, exc) ==
    /\ i \in 1..Len(active[f])
    /\ ctxvar' = ExitReset(ctxvar, f, active[f][i]._token)
    /\ active' = [active EXCEPT ![f] = RemoveAt(@, i)]
    /\ last' = Called("exit", f, exc)
    /\ UNCHANGED <<default_map, stageVars, confVars, cacheVars>>

(***************************************************************************)
(* add_context and clear_context                                           *)
(***************************************************************************)
add_context(f, context) ==
    /\ LET existing == ContextVarGet(ctxvar, f, EmptyMap)
           merged   == Merge(existing, context)
       IN ctxvar' = ContextVarSet(ctxvar, f, merged)
    /\ last' = Called("add_context", f, FALSE)
    /\ UNCHANGED <<default_map, active, stageVars, confVars, cacheVars>>

\* line 299: the value clear_context sets
ClearValueKept(cv, f) == ContextVarGet(cv, f, EmptyMap)

ClearValue(cv, f) == EmptyMap

clear_context(f) ==
    /\ ctxvar' = ContextVarSet(ctxvar, f, ClearValue(ctxvar, f))
    /\ last' = Called("clear_context", f, FALSE)
    /\ UNCHANGED <<default_map, active, stageVars, confVars, cacheVars>>

(***************************************************************************)
(* Log records and StructuredJSONFormatter.format                          *)
(*                                                                         *)
(* A formatted record is the log_entry dict that format() hands to         *)
(* json.dumps: a mapping from member name to a value, a value being a      *)
(* scalar (kind "str") or a nested mapping (kind "map").                   *)
(***************************************************************************)
Str(s) == [kind |-> "str", s |-> s, m |-> EmptyMap, n |-> 0]

MapV(m) == [kind |-> "map", s |-> "", m |-> m, n |-> 0]

Num(n) == [kind |-> "num", s |-> "", m |-> EmptyMap, n |-> n]

\* the attributes a LogRecord has of its own (record.__dict__); the logger
\* refuses an extra field with one of these names, or named message or
\* asctime, by raising KeyError before any record exists
LogRecordAttrs ==
    {"name", "msg", "args", "levelname", "levelno", "pathname", "filename",
     "module", "exc_info", "exc_text", "stack_info", "lineno", "funcName",
     "created", "msecs", "relativeCreated", "thread", "threadName",
     "processName", "process", "taskName"}

RefusedExtraKeys == LogRecordAttrs \cup {"message", "asctime"}

\* lines 111-117
skip_keys ==
    {"name", "msg", "args", "levelname", "levelno", "pathname",
     "filename", "module", "exc_info", "exc_text", "stack_info",
     "lineno", "funcName", "created", "msecs", "relativeCreated",
     "thread", "threadName", "processName", "process", "getMessage",
     "message", "taskName"}

\* the modelled keys for which key.startswith("_") holds
UnderscoreKeys == {"_p"}

\* the formatter configure_logging() builds when no argument and no
\* environment variable is given
DefaultFormatter ==
    [service_name |-> "unknown-service", service_version |-> "1.0.0",
     environment |-> "development"]

\* logger.<level>(msg, extra=extra, exc_info=...): the LogRecord made
MakeRecord(levelname, name, msg, extra, exc_info) ==
    [levelname |-> levelname, name |-> name, msg |-> msg, module |-> "app",
     funcName |-> "handler", lineno |-> "42", created |-> "1700000000.5",
     exc_info |-> exc_info, extra |-> extra]

\* whether the logger raises KeyError instead of making the record
MakeRecordRaises(extra) == (DOMAIN extra) \cap RefusedExtraKeys # {}

\* line 72: datetime.fromtimestamp(record.created, timezone.utc).isoformat()
IsoFormatNow(created) ==
    IF clock = 0 THEN "2023-11-14T22:13:20.500000+00:00"
    ELSE "2023-11-14T22:13:20.500007+00:00"

IsoFormat(created) ==
    IF created = "1700000000.5" THEN "2023-11-14T22:13:20.500000+00:00"
    ELSE "1970-01-01T00:00:00+00:00"

\* lines 118-120: the extra fields that are copied to the top level
ExtraMembers(record) ==
    [k \in {x \in DOMAIN record.extra : x \notin skip_keys /\ x \notin UnderscoreKeys}
        |-> Str(record.extra[k])]

\* lines 84-87: the context member, present when the snapshot is not empty
ContextMemberAlways(context) == [context |-> MapV(context)]

ContextMember(context) ==
    IF context # EmptyMap THEN [context |-> MapV(context)] ELSE EmptyMap

\* lines 89-100: the trace members of a recording span
TraceMembersAlways(recording) ==
    [trace_id |-> Str("0000000000000000000000000000abcd"),
     span_id |-> Str("00000000000000ef"), trace_flags |-> Str("1")]

TraceMembers(recording) ==
    IF recording
    THEN [trace_id |-> Str("0000000000000000000000000000abcd"),
          span_id |-> Str("00000000000000ef"), trace_flags |-> Str("1")]
    ELSE EmptyMap

\* lines 102-108: the exception member (the traceback lines are left out)
ExceptionMember(record) ==
    IF record.exc_info
    THEN [exception |-> MapV([type |-> "ValueError", message |-> "boom"])]
    ELSE EmptyMap

\* lines 110-120 run last, so an extra field replaces any member of its name
FormatExtrasFirst(formatter, record, context, recording) ==
    LET base == [timestamp |-> Str(IsoFormat(record.created)),
                 service |-> Str(formatter.service_name),
                 version |-> Str(formatter.service_version),
                 environment |-> Str(formatter.environment),
                 level |-> Str(record.levelname),
                 logger |-> Str(record.name),
                 message |-> Str(record.msg),
                 module |-> Str(record.module),
                 function |-> Str(record.funcName),
                 line |-> Str(record.lineno)]
    IN Merge(Merge(Merge(Merge(base, ExtraMembers(record)),
                         ContextMember(context)),
                   TraceMembers(recording)),
             ExceptionMember(record))

\* StructuredJSONFormatter.format(record), the context variable reading
\* context and the current span recording or not
Format(formatter, record, context, recording) ==
    LET base == [timestamp |-> Str(IsoFormat(record.created)),
                 service |-> Str(formatter.service_name),
                 version |-> Str(formatter.service_version),
                 environment |-> Str(formatter.environment),
                 level |-> Str(record.levelname),
                 logger |-> Str(record.name),
                 message |-> Str(record.msg),
                 module |-> Str(record.module),
                 function |-> Str(record.funcName),
                 line |-> Str(record.lineno)]
    IN Merge(Merge(Merge(Merge(base, ContextMember(context)),
                         TraceMembers(recording)),
                   ExceptionMember(record)),
             ExtraMembers(record))

\* Field values are written as Python expressions. json.dumps encodes a
\* value it has no encoding for through default=str (line 122); a dict with
\* a tuple as key makes it raise TypeError, default=str or not.
NeedsDefault == {"object()"}

Unencodable == {"{(1, 2): 1}"}

\* default=str: str(value)
JsonDefault(v) == IF v \in NeedsDefault THEN "<object object at 0x1>" ELSE v

\* line 122: whether json.dumps(log_entry, ..., default=str) raises
JsonDumpsRaises(log_entry) ==
    \E k \in DOMAIN log_entry :
        \/ log_entry[k].kind = "str" /\ log_entry[k].s \in Unencodable
        \/ /\ log_entry[k].kind = "map"
           /\ \E j \in DOMAIN log_entry[k].m : log_entry[k].m[j] \in Unencodable

\* line 122: the members of the JSON text json.dumps returns
JsonDumps(log_entry) ==
    [k \in DOMAIN log_entry |->
        IF log_entry[k].kind = "str" THEN Str(JsonDefault(log_entry[k].s))
        ELSE IF log_entry[k].kind = "map"
             THEN MapV([j \in DOMAIN log_entry[k].m |-> JsonDefault(log_entry[k].m[j])])
             ELSE log_entry[k]]

\* the log calls made: the extra fields, whether a span is recording, and
\* whether the call carries exception information
LogCalls ==
    { [extra |-> EmptyMap,                recording |-> FALSE, exc_info |-> FALSE],
      [extra |-> [a |-> "9", _p |-> "9"], recording |-> TRUE,  exc_info |-> FALSE],
      [extra |-> [context |-> "9"],       recording |-> FALSE, exc_info |-> TRUE],
      [extra |-> [trace_id |-> "9"],      recording |-> TRUE,  exc_info |-> FALSE],
      [extra |-> [message |-> "9"],       recording |-> FALSE, exc_info |-> FALSE] }

\* the record a log call makes
RecordOf(call) == MakeRecord("INFO", "app", "hello", call.extra, call.exc_info)

\* get_logger(name).info("hello", extra=..., exc_info=...) in flow f, written
\* through the handler configure_logging() installed
\* handler.format(record) as StreamHandler.emit calls it: the members
\* written to the sink, or NoRecord when format() raises and the handler
\* reports the error on stderr instead of writing
Formatted(f, call) ==
    LET log_entry == Format(DefaultFormatter, RecordOf(call), Snapshot(f),
                            call.recording)
    IN IF JsonDumpsRaises(log_entry) THEN NoRecord ELSE JsonDumps(log_entry)

Log(f, call) ==
    /\ last' = [op |-> "log", flow |-> f, exc |-> FALSE, call |-> call,
                out |-> IF MakeRecordRaises(call.extra) THEN NoRecord
                        ELSE Formatted(f, call),
                raised |-> IF MakeRecordRaises(call.extra) THEN "KeyError" ELSE "",
                dropped |-> /\ ~MakeRecordRaises(call.extra)
                            /\ Formatted(f, call) = NoRecord,
                at |-> clock, again |-> NoRecord]
    /\ UNCHANGED <<ctxvar, default_map, active, stageVars, confVars, cacheVars>>

\* the formatter formats the record of the last log call once more
Reformat(f) ==
    /\ last.op = "log" /\ last.flow = f /\ last.raised = ""
    /\ last' = [last EXCEPT !.op = "format", !.again = Formatted(f, last.call)]
    /\ UNCHANGED <<ctxvar, default_map, active, stageVars, confVars, cacheVars>>

(***************************************************************************)
(* The history of a flow after each call.                                  *)
(***************************************************************************)
TrackEnter(f) == UNCHANGED hist

TrackExit(f, i) ==
    hist' = [hist EXCEPT ![f].lifo = @ /\ (i = Len(active[f])),
                         ![f].exited = @ \cup Pairs(active[f][i].context)]

TrackAdd(f, context) ==
    hist' = [hist EXCEPT ![f].pure = FALSE, ![f].added = @ \cup Pairs(context)]

TrackClear(f) == hist' = [hist EXCEPT ![f].pure = FALSE]

(***************************************************************************)
(* Spec: every call of the context store made by one flow, in any order,   *)
(* scopes exited in any order.                                             *)
(***************************************************************************)
Next ==
    \/ \E context \in ScopeFields :
          RequestContextEnter(MainFlow, context) /\ TrackEnter(MainFlow)
    \/ \E i \in 1..MaxDepth, exc \in BOOLEAN :
          RequestContextExit(MainFlow, i, exc) /\ TrackExit(MainFlow, i)
    \/ \E context \in AddFields :
          add_context(MainFlow, context) /\ TrackAdd(MainFlow, context)
    \/ clear_context(MainFlow) /\ TrackClear(MainFlow)

Spec == Init /\ [][Next]_vars

(***************************************************************************)
(* SpecLog: one flow calls the context store, scopes exited in any order,  *)
(* and logs through the structured formatter.                              *)
(***************************************************************************)
NextLog ==
    \/ \E context \in ScopeFields \ {EmptyMap} :
          RequestContextEnter(MainFlow, context) /\ TrackEnter(MainFlow)
    \/ \E i \in 1..MaxDepth :
          RequestContextExit(MainFlow, i, FALSE) /\ TrackExit(MainFlow, i)
    \/ \E context \in AddFields :
          add_context(MainFlow, context) /\ TrackAdd(MainFlow, context)
    \/ clear_context(MainFlow) /\ TrackClear(MainFlow)
    \/ \E call \in LogCalls : Log(MainFlow, call) /\ UNCHANGED hist

SpecLog == Init /\ [][NextLog]_vars

(***************************************************************************)
(* SpecIso: two flows interleave their calls; each flow closes its scopes  *)
(* innermost first.                                                        *)
(***************************************************************************)
NextIso ==
    \/ \E f \in Flows : \E context \in ScopeFieldsOf(f) :
          RequestContextEnter(f, context) /\ UNCHANGED hist
    \/ \E f \in Flows :
          RequestContextExit(f, Len(active[f]), FALSE) /\ UNCHANGED hist
    \/ \E f \in Flows, context \in AddFields :
          add_context(f, context) /\ UNCHANGED hist
    \/ \E f \in Flows : clear_context(f) /\ UNCHANGED hist

SpecIso == Init /\ [][NextIso]_vars

(***************************************************************************)
(* SpecScoped: one flow calls the context store, scopes exited in any      *)
(* order, and the history records where each add_context call was made.    *)
(*   inside   per active scope, the fields given to add_context while that *)
(*            scope was the innermost one                                  *)
(*   outside  the fields given to add_context with no scope active         *)
(*   left     the fields given to add_context inside a scope that has      *)
(*            exited since, and given nowhere else: not with no scope      *)
(*            active, not inside a scope that is still active, and not     *)
(*            again after that exit                                        *)
(***************************************************************************)
ScopedEnter(f, context) ==
    hist' = [hist EXCEPT ![f].inside = Append(@, {}),
                         ![f].left = @ \ Pairs(context)]

ScopedExit(f, i) ==
    LET others == UNION { hist[f].inside[j] : j \in DOMAIN hist[f].inside \ {i} }
    IN hist' = [hist EXCEPT
           ![f].lifo = @ /\ (i = Len(active[f])),
           ![f].left = (@ \cup hist[f].inside[i]) \ (others \cup hist[f].outside),
           ![f].inside = RemoveAt(@, i)]

ScopedAdd(f, context) ==
    LET n == Len(active[f])
    IN hist' = [hist EXCEPT
           ![f].added = @ \cup Pairs(context),
           ![f].left = @ \ Pairs(context),
           ![f].outside = IF n = 0 THEN @ \cup Pairs(context) ELSE @,
           ![f].inside = IF n = 0 THEN @
                         ELSE [@ EXCEPT ![n] = @ \cup Pairs(context)]]

NextScoped ==
    \/ \E context \in ScopeFields :
          RequestContextEnter(MainFlow, context) /\ ScopedEnter(MainFlow, context)
    \/ \E i \in 1..MaxDepth, exc \in BOOLEAN :
          RequestContextExit(MainFlow, i, exc) /\ ScopedExit(MainFlow, i)
    \/ \E context \in AddFields :
          add_context(MainFlow, context) /\ ScopedAdd(MainFlow, context)
    \/ clear_context(MainFlow) /\ UNCHANGED hist

SpecScoped == Init /\ [][NextScoped]_vars

(***************************************************************************)
(* stage(): the timed-operation context manager                            *)
(*                                                                         *)
(* The logger stage() writes to is enabled for INFO and ERROR, as it is    *)
(* after configure_logging() with its default level.                       *)
(***************************************************************************)
\* **context given to stage(); operation, logger and log_start are named
\* parameters and cannot occur among these keys
StageKwargs == { EmptyMap, [doc_id |-> "123"], [message |-> "x"] }

\* the assignments ctx[key] = value the wrapped work makes
WorkPuts ==
    { <<"chunks_created", "42">>, <<"message", "x">>, <<"duration_ms", "x">>,
      <<"error", "x">> }

\* the exceptions the wrapped work raises: an ordinary error, and a
\* cancellation, whose class does not derive from Exception
WorkExceptions ==
    { [type |-> "ValueError", msg |-> "Test error", ordinary |-> TRUE],
      [type |-> "CancelledError", msg |-> "", ordinary |-> FALSE] }

\* the KeyError the logger raises for a refused extra field
KeyErrorRaised ==
    [type |-> "KeyError", msg |-> "Attempt to overwrite key in LogRecord",
     ordinary |-> TRUE]

\* the amounts, in microseconds, by which the clock is seen to advance
ClockSteps == {4, 7}

\* an extra= dictionary with string values
ValMap(m) == [k \in DOMAIN m |-> Str(m[k])]

\* round((t1 - t0) * 1000, 2) for t0, t1 in microseconds: the duration in
\* hundredths of a millisecond, halves rounded to even
DurationMs(t0, t1) ==
    LET us == t1 - t0
        q  == us \div 10
        r  == us % 10
    IN IF r > 5 \/ (r = 5 /\ q % 2 = 1) THEN q + 1 ELSE q

\* the record logger.info / logger.error makes of msg and extra
StageRecord(levelname, operation, suffix, extra) ==
    [levelname |-> levelname, operation |-> operation, suffix |-> suffix,
     extra |-> extra]

\* time.perf_counter() advances
Tick(d) ==
    /\ stg.pc \in {"idle", "body"}
    /\ clock + d <= MaxClock
    /\ clock' = clock + d
    /\ UNCHANGED <<ctxVars, confVars, cacheVars, stg, records, caller_exc>>

\* lines 253-263: stage(operation, log_start=..., **context) up to the yield
StageStart(operation, log_start, context) ==
    /\ stg.pc = "idle"
    /\ LET stage_context == Merge([operation |-> operation], context)
           extra == ValMap(stage_context)
           begun == [pc |-> "body", operation |-> operation,
                     log_start |-> log_start, stage_context |-> stage_context,
                     start_time |-> clock, puts |-> 0, outcome |-> "",
                     raised |-> NoException]
       IN IF log_start /\ MakeRecordRaises(extra)
          THEN /\ stg' = [begun EXCEPT !.pc = "done", !.outcome = "start_failed"]
               /\ caller_exc' = KeyErrorRaised
               /\ UNCHANGED records
          ELSE /\ stg' = begun
               /\ records' = IF log_start
                             THEN Append(records,
                                         StageRecord("INFO", operation, "_started", extra))
                             ELSE records
               /\ UNCHANGED caller_exc
    /\ UNCHANGED <<ctxVars, confVars, cacheVars, clock>>

\* the wrapped work assigns ctx[key] = value in the yielded dictionary
WorkPut(key, value) ==
    /\ stg.pc = "body"
    /\ stg.puts < MaxPuts
    /\ stg' = [stg EXCEPT !.stage_context = Merge(@, [k \in {key} |-> value]),
                          !.puts = @ + 1]
    /\ UNCHANGED <<ctxVars, confVars, cacheVars, clock, records, caller_exc>>

\* line 267: extra={**stage_context, "duration_ms": round(duration_ms, 2)}
CompletedExtraContextLast(stage_context, duration_ms) ==
    Merge([duration_ms |-> Num(duration_ms)], ValMap(stage_context))

CompletedExtra(stage_context, duration_ms) ==
    Merge(ValMap(stage_context), [duration_ms |-> Num(duration_ms)])

\* lines 273-278: the extra= of the failure record
FailedExtra(stage_context, duration_ms, e) ==
    Merge(CompletedExtra(stage_context, duration_ms),
          [error |-> Str(e.msg), error_type |-> Str(e.type)])

\* lines 269-280: the except branch for the ordinary exception e, as
\* [records, exc]: the failure record is logged and e raised again, unless
\* the logger refuses the extra fields and its KeyError goes out instead
StageFailure(e) ==
    LET duration_ms == DurationMs(stg.start_time, clock)
        extra == FailedExtra(stg.stage_context, duration_ms, e)
    IN IF MakeRecordRaises(extra)
       THEN [records |-> records, exc |-> KeyErrorRaised]
       ELSE [records |-> Append(records,
                                StageRecord("ERROR", stg.operation, "_failed", extra)),
             exc |-> e]

\* lines 263-268: the wrapped work ends normally and the generator resumes
\* after the yield; the completion log call is inside the try block
WorkReturns ==
    /\ stg.pc = "body"
    /\ LET duration_ms == DurationMs(stg.start_time, clock)
           extra == CompletedExtra(stg.stage_context, duration_ms)
       IN IF MakeRecordRaises(extra)
          THEN /\ records' = StageFailure(KeyErrorRaised).records
               /\ caller_exc' = StageFailure(KeyErrorRaised).exc
          ELSE /\ records' = Append(records,
                                    StageRecord("INFO", stg.operation, "_completed", extra))
               /\ caller_exc' = NoException
    /\ stg' = [stg EXCEPT !.pc = "done", !.outcome = "returned"]
    /\ UNCHANGED <<ctxVars, confVars, cacheVars, clock>>

\* lines 263, 269-280: the wrapped work raises e, thrown into the generator
\* at the yield; except Exception does not catch a cancellation
WorkRaises(e) ==
    /\ stg.pc = "body"
    /\ IF e.ordinary
       THEN /\ records' = StageFailure(e).records
            /\ caller_exc' = StageFailure(e).exc
       ELSE /\ caller_exc' = e
            /\ UNCHANGED records
    /\ stg' = [stg EXCEPT !.pc = "done", !.outcome = "raised", !.raised = e]
    /\ UNCHANGED <<ctxVars, confVars, cacheVars, clock>>

(***************************************************************************)
(* SpecStage: one stage() call around work that fills the yielded          *)
(* dictionary, takes time, and returns or raises.                          *)
(***************************************************************************)
NextStage ==
    \/ \E d \in ClockSteps : Tick(d)
    \/ \E log_start \in BOOLEAN, context \in StageKwargs :
          StageStart("op", log_start, context)
    \/ \E p \in WorkPuts : WorkPut(p[1], p[2])
    \/ WorkReturns
    \/ \E e \in WorkExceptions : WorkRaises(e)

SpecStage == Init /\ [][NextStage]_vars

(***************************************************************************)
(* SpecFmt: one flow logs records of every shape through the structured    *)
(* formatter, with and without context fields, while time passes.          *)
(***************************************************************************)
\* the member names of the structured record (lines 71-108)
ReservedMembers ==
    {"timestamp", "service", "version", "environment", "level", "logger",
     "message", "module", "function", "line", "context", "trace_id",
     "span_id", "trace_flags", "exception"}

\* lines 89-100: opentelemetry cannot be imported, or the current span is
\* or is not recording
TraceStates == {"not installed", "not recording", "recording"}

SpanRecording(trace) == trace = "recording"

FmtExtras ==
    { EmptyMap, [a |-> "9", _p |-> "9"],
      [v |-> "object()", w |-> "1"], [v |-> "{(1, 2): 1}", w |-> "1"] }
    \cup { [k \in {name} |-> "9"] : name \in ReservedMembers }

\* every extra with each trace state, and exception information with two
FmtCalls ==
    { [extra |-> x, recording |-> SpanRecording(t), exc_info |-> FALSE] :
        x \in FmtExtras, t \in TraceStates }
    \cup { [extra |-> x, recording |-> SpanRecording(t), exc_info |-> TRUE] :
             x \in {EmptyMap, [exception |-> "9"]}, t \in TraceStates }

FmtScopeFields == { [a |-> "1"], [v |-> "object()"], [v |-> "{(1, 2): 1}"] }

\* the time that passes between two calls
FmtClockSteps == {d \in ClockSteps : \A e \in ClockSteps : e <= d}

NextFmt ==
    \/ \E context \in FmtScopeFields :
          add_context(MainFlow, context) /\ UNCHANGED hist
    \/ clear_context(MainFlow) /\ UNCHANGED hist
    \/ \E call \in FmtCalls : Log(MainFlow, call) /\ UNCHANGED hist
    \/ Reformat(MainFlow) /\ UNCHANGED hist
    \/ \E d \in FmtClockSteps : Tick(d)

SpecFmt == Init /\ [][NextFmt]_vars

(***************************************************************************)
(* configure_logging() and the loggers of the logging module               *)
(*                                                                         *)
(* None is written as the empty string: configure_logging() treats both    *)
(* the same (x or default).                                                *)
(***************************************************************************)
\* os.getenv(name, default)
Getenv(name, default) == IF name \in DOMAIN environ THEN environ[name] ELSE default

\* a or b
Or(a, b) == IF a # "" THEN a ELSE b

\* str.upper(), on the level names given
Upper(str) == IF str = "debug" THEN "DEBUG" ELSE str

\* line 171: getattr(logging, log_level.upper(), logging.INFO)
GetLevelAsWritten(log_level) ==
    IF log_level \in DOMAIN LevelNo THEN LevelNo[log_level] ELSE LevelNo["INFO"]

GetLevel(log_level) ==
    IF Upper(log_level) \in DOMAIN LevelNo THEN LevelNo[Upper(log_level)]
    ELSE LevelNo["INFO"]

\* lines 156-166: the formatter of the new handler
NewFormatter(service_name, json_output) ==
    IF json_output
    THEN [class |-> "StructuredJSONFormatter", service_name |-> service_name,
          service_version |-> "1.0.0", environment |-> "development"]
    ELSE [class |-> "Formatter", service_name |-> "",
          service_version |-> "", environment |-> ""]

\* lines 149-151: every handler of the root logger is removed
RemoveHandlersKept(handlers) == handlers

RemoveHandlers(handlers) == <<>>

\* the loggers set to WARNING at lines 175-177
QuietedLoggers == {"urllib3", "httpx", "httpcore"}

\* lines 125-177
configure_logging(service_name, log_level, json_output) ==
    LET name  == Or(service_name, Getenv("SERVICE_NAME", "unknown-service"))
        level == Or(log_level, Getenv("LOG_LEVEL", "INFO"))
    IN /\ root_handlers' = Append(RemoveHandlers(root_handlers),
                                  [formatter |-> NewFormatter(name, json_output)])
       /\ levels' = [n \in LoggerNames |->
                        IF n = "root" THEN GetLevel(level)
                        ELSE IF n \in QuietedLoggers THEN LevelNo["WARNING"]
                        ELSE levels[n]]
       /\ configured' = [done |-> TRUE, service_name |-> service_name,
                         log_level |-> log_level, json_output |-> json_output,
                         LOG_LEVEL |-> Getenv("LOG_LEVEL", "")]
       /\ written' = NothingWritten
       /\ UNCHANGED <<environ, ctxVars, stageVars, cacheVars>>

\* the process environment sets or unsets LOG_LEVEL
Setenv(value) ==
    /\ environ' = IF value = "" THEN EmptyMap ELSE [LOG_LEVEL |-> value]
    /\ environ' # environ
    /\ UNCHANGED <<levels, root_handlers, written, configured, ctxVars, stageVars, cacheVars>>

\* the parent of a logger in the hierarchy of dotted names
Parent(name) == IF name = "urllib3.pool" THEN "urllib3" ELSE "root"

\* Logger.getEffectiveLevel(): the first level set on the way to the root
RECURSIVE EffectiveLevel(_, _)
EffectiveLevel(lv, name) ==
    IF name = "root" \/ lv[name] # LevelNo["NOTSET"] THEN lv[name]
    ELSE EffectiveLevel(lv, Parent(name))

\* get_logger(name).<levelname>("m"): when the logger is enabled for the
\* level, every handler of the root logger writes one line
LoggerCall(name, levelname) ==
    /\ written' =
          [made |-> TRUE, name |-> name, levelname |-> levelname,
           lines |-> IF LevelNo[levelname] >= EffectiveLevel(levels, name)
                     THEN [i \in 1..Len(root_handlers) |->
                              [formatter |-> root_handlers[i].formatter,
                               levelname |-> levelname, name |-> name]]
                     ELSE <<>>]
    /\ UNCHANGED <<levels, root_handlers, environ, configured, ctxVars, stageVars, cacheVars>>

(***************************************************************************)
(* SpecConf: configure_logging() is called any number of times, with       *)
(* LOG_LEVEL set or not, and loggers are used.                             *)
(***************************************************************************)
LevelNames == {"DEBUG", "INFO", "WARNING", "ERROR"}

LevelArgs == {"", "DEBUG", "INFO", "WARNING", "ERROR", "debug", "bogus"}

NextConf ==
    \/ \E service_name \in {"", "my-service"}, log_level \in LevelArgs,
          json_output \in BOOLEAN :
          configure_logging(service_name, log_level, json_output)
    \/ \E value \in {"", "ERROR", "debug"} : Setenv(value)
    \/ \E name \in {"root", "app", "urllib3", "urllib3.pool"}, levelname \in LevelNames :
          LoggerCall(name, levelname)

SpecConf == Init /\ [][NextConf]_vars

(***************************************************************************)
(* DragonflyClient (dragonfly.py)                                          *)
(*                                                                         *)
(* The server is up, unreachable (the connection cannot be made) or        *)
(* failing (it answers every command with an error). Expiry of keys as     *)
(* time passes is not modelled.                                            *)
(***************************************************************************)
ServerStates == {"up", "unreachable", "failing"}

\* the objects given to store(): one that pickles, one that does not
CacheData == {"{'data': [1, 2, 3]}", "lambda: 0"}

Unpicklable == {"lambda: 0"}

\* pickle.dumps and pickle.loads
PickleDumps(data) == [pickled |-> data]

PickleLoads(serialized_data) == serialized_data.pickled

\* line 51
default_ttl == 3600

\* ttl=None
TtlNone == -1

\* the exception a command raises in the current state of the server
CommandError ==
    IF server = "unreachable" THEN "ConnectionError"
    ELSE IF server = "failing" THEN "ResponseError"
    ELSE ""

\* except Exception (lines 131, 156, 175, 191, 207, 224, 241): whether the
\* except clause catches an exception of class exc
CaughtRedisOnly(exc) == exc \in {"ConnectionError", "ResponseError"}

Caught(exc) == TRUE

\* the keys the server holds
Held == {k \in CacheKeys : kv[k].present}

\* the outcome of a method: ok when no exception was raised in its try
\* block, else the failure value with one logger.error call, or the
\* exception itself when the except clause does not catch it
Outcome(op, key, data, ttl, exc, ok, failure) ==
    [made |-> TRUE, op |-> op, key |-> key, data |-> data, ttl |-> ttl,
     server |-> server, before |-> kv[key], held |-> Held,
     result |-> IF exc = "" THEN ok ELSE IF Caught(exc) THEN failure ELSE ResNone,
     raised |-> IF exc # "" /\ ~Caught(exc) THEN exc ELSE "",
     errors |-> IF exc # "" /\ Caught(exc) THEN 1 ELSE 0]

\* what every method leaves alone, and the history of failures
CacheFrame(exc) ==
    /\ df_failed' = (df_failed \/ exc # "")
    /\ UNCHANGED <<server, factoryVars, ctxVars, stageVars, confVars>>

\* lines 108-133
store(key, data, ttl) ==
    LET t   == IF ttl # TtlNone THEN ttl ELSE default_ttl
        exc == IF data \in Unpicklable THEN "PicklingError"
               ELSE IF CommandError # "" THEN CommandError
               ELSE IF t <= 0 THEN "ResponseError"
               ELSE ""
    IN /\ kv' = IF exc = ""
                THEN [kv EXCEPT ![key] = [present |-> TRUE,
                                          value |-> PickleDumps(data), ttl |-> t]]
                ELSE kv
       /\ _client' = (_client \/ data \notin Unpicklable)
       /\ df_last' = Outcome("store", key, data, ttl, exc, ResBool(TRUE), ResBool(FALSE))
       /\ CacheFrame(exc)

\* lines 135-158
retrieve(key) ==
    /\ df_last' = Outcome("retrieve", key, "", 0, CommandError,
                          IF kv[key].present THEN ResData(PickleLoads(kv[key].value))
                          ELSE ResNone,
                          ResNone)
    /\ _client' = TRUE
    /\ UNCHANGED kv
    /\ CacheFrame(CommandError)

\* lines 160-177
delete(key) ==
    /\ df_last' = Outcome("delete", key, "", 0, CommandError,
                          ResBool(kv[key].present), ResBool(FALSE))
    /\ kv' = IF CommandError = "" THEN [kv EXCEPT ![key] = Absent] ELSE kv
    /\ _client' = TRUE
    /\ CacheFrame(CommandError)

\* lines 179-193
exists(key) ==
    /\ df_last' = Outcome("exists", key, "", 0, CommandError,
                          ResBool(kv[key].present), ResBool(FALSE))
    /\ _client' = TRUE
    /\ UNCHANGED kv
    /\ CacheFrame(CommandError)

\* lines 195-209: TTL returns -2 for a key the server does not hold
get_ttl(key) ==
    /\ df_last' = Outcome("get_ttl", key, "", 0, CommandError,
                          IF kv[key].present THEN ResInt(kv[key].ttl) ELSE ResInt(-2),
                          ResNone)
    /\ _client' = TRUE
    /\ UNCHANGED kv
    /\ CacheFrame(CommandError)

\* lines 211-226, for ttl > 0
set_ttl(key, ttl) ==
    /\ df_last' = Outcome("set_ttl", key, "", ttl, CommandError,
                          ResBool(kv[key].present), ResBool(FALSE))
    /\ kv' = IF CommandError = "" /\ kv[key].present
             THEN [kv EXCEPT ![key].ttl = ttl] ELSE kv
    /\ _client' = TRUE
    /\ CacheFrame(CommandError)

\* lines 228-243, for the pattern "*"; key is not used
keys(key) ==
    /\ df_last' = Outcome("keys", key, "", 0, CommandError, ResList(Held), ResList({}))
    /\ _client' = TRUE
    /\ UNCHANGED kv
    /\ CacheFrame(CommandError)

\* lines 245-254
close ==
    /\ _client
    /\ _client' = FALSE
    /\ UNCHANGED <<server, kv, df_last, df_failed, factoryVars, ctxVars, stageVars, confVars>>

\* the server goes down, fails, or recovers
ServerChanges(state) ==
    /\ state # server
    /\ server' = state
    /\ UNCHANGED <<kv, _client, df_last, df_failed, factoryVars, ctxVars, stageVars, confVars>>

(***************************************************************************)
(* SpecCache: one client is used while the server goes down and recovers.  *)
(***************************************************************************)
NextCache ==
    \/ \E key \in CacheKeys, data \in CacheData, ttl \in {TtlNone, 0, 60} :
          store(key, data, ttl)
    \/ \E key \in CacheKeys : retrieve(key)
    \/ \E key \in CacheKeys : delete(key)
    \/ \E key \in CacheKeys : exists(key)
    \/ \E key \in CacheKeys : get_ttl(key)
    \/ \E key \in CacheKeys : set_ttl(key, 60)
    \/ keys("k1")
    \/ close
    \/ \E state \in ServerStates : ServerChanges(state)

SpecCache == Init /\ [][NextCache]_vars

(***************************************************************************)
(* get_dragonfly_client(): the factory and the module-level shared client  *)
(***************************************************************************)
\* the arguments host, port, default_ttl; None is "" or 0
FactoryArgs ==
    { [host |-> "", port |-> 0, default_ttl |-> 0],
      [host |-> "cache", port |-> 6380, default_ttl |-> 60] }

\* int(), on the numerals read here
ParseInt(str) == CASE str = "6379" -> 6379 [] str = "3600" -> 3600

\* a or b, on integers
OrInt(a, b) == IF a # 0 THEN a ELSE b

\* lines 297-299
ResolveConfig(args) ==
    [host |-> Or(args.host, Getenv("DRAGONFLY_HOST", "dragonfly")),
     port |-> OrInt(args.port, ParseInt(Getenv("DRAGONFLY_PORT", "6379"))),
     default_ttl |-> OrInt(args.default_ttl, ParseInt(Getenv("DRAGONFLY_TTL", "3600")))]

\* DragonflyClient(host=host, port=port, default_ttl=default_ttl): lines
\* 69-76, no connection is made
NewDragonflyClient(config) ==
    [host |-> config.host, port |-> config.port,
     default_ttl |-> config.default_ttl]

FactoryFrame == UNCHANGED <<clientVars, ctxVars, stageVars, confVars>>

\* lines 294-302 and 310: a call up to its test of _default_client, or, with
\* singleton=False, the whole call
get_dragonfly_client(t, args, singleton) ==
    /\ threads[t].pc = "idle"
    /\ fact.calls < MaxCalls
    /\ LET config == ResolveConfig(args)
       IN IF singleton
          THEN /\ threads' = [threads EXCEPT ![t] =
                      [pc |-> IF _default_client = None THEN "create" ELSE "return",
                       singleton |-> TRUE, config |-> config, result |-> @.result]]
               /\ fact' = [fact EXCEPT
                      !.calls = @ + 1,
                      !.overlapped = @ \/ \E u \in Threads \ {t} :
                                              threads[u].pc # "idle"]
               /\ UNCHANGED objects
          ELSE /\ objects' = Append(objects, NewDragonflyClient(config))
               /\ threads' = [threads EXCEPT ![t] =
                      [pc |-> "idle", singleton |-> FALSE, config |-> config,
                       result |-> Len(objects) + 1]]
               /\ fact' = [fact EXCEPT !.calls = @ + 1]
    /\ UNCHANGED _default_client
    /\ FactoryFrame

\* lines 303-307: the thread found None at line 302
CreateDefault(t) ==
    /\ threads[t].pc = "create"
    /\ objects' = Append(objects, NewDragonflyClient(threads[t].config))
    /\ _default_client' = Len(objects) + 1
    /\ threads' = [threads EXCEPT ![t].pc = "return"]
    /\ fact' = [fact EXCEPT !.shared = @ \cup {Len(objects) + 1}]
    /\ FactoryFrame

\* line 308: return _default_client
ReturnDefault(t) ==
    /\ threads[t].pc = "return"
    /\ threads' = [threads EXCEPT ![t].pc = "idle", ![t].result = _default_client]
    /\ fact' = [fact EXCEPT !.returned = @ \cup {_default_client}]
    /\ UNCHANGED <<_default_client, objects>>
    /\ FactoryFrame

(***************************************************************************)
(* SpecFactory: two threads call the factory, with and without singleton.  *)
(***************************************************************************)
NextFactory ==
    \/ \E t \in Threads, args \in FactoryArgs, singleton \in BOOLEAN :
          get_dragonfly_client(t, args, singleton)
    \/ \E t \in Threads : CreateDefault(t)
    \/ \E t \in Threads : ReturnDefault(t)

SpecFactory == Init /\ [][NextFactory]_vars

(***************************************************************************)
(* Properties of the context store                                         *)
(***************************************************************************)
RECURSIVE ScopeUnion(_)
\* the fields of the scopes of s, outermost first, an inner scope's value
\* replacing an outer scope's value for the same key
ScopeUnion(s) ==
    IF s = <<>> THEN EmptyMap
    ELSE Merge(ScopeUnion(SubSeq(s, 1, Len(s) - 1)), s[Len(s)].context)

\* C1: after a correctly nested (innermost first) sequence of enter and exit
\* calls alone, the snapshot a flow reads is the union of the fields of the
\* scopes that enclose it, inner values overriding outer ones.
C1_NestedUnion ==
    \A f \in Flows :
        (hist[f].pure /\ hist[f].lifo) => Snapshot(f) = ScopeUnion(active[f])

C1_Witness ==
    /\ hist[MainFlow].pure /\ hist[MainFlow].lifo
    /\ Len(active[MainFlow]) = 2
    /\ active[MainFlow][1].context = [a |-> "1"]
    /\ active[MainFlow][2].context = [a |-> "2", b |-> "2"]
    /\ Snapshot(MainFlow) = [a |-> "2", b |-> "2"]

\* C2: the exit of a scope, with or without an exception and whatever was
\* called inside it, makes the snapshot the mapping the flow read just before
\* the matching enter; a scope entered while the variable had no value leaves
\* the empty mapping.
C2_ExitRestores ==
    [][\A f \in Flows, i \in 1..MaxDepth, exc \in BOOLEAN :
          RequestContextExit(f, i, exc) =>
              /\ Snapshot(f)' = active[f][i].before
              /\ (~active[f][i]._token.set => Snapshot(f)' = EmptyMap)]_vars

C2_Witness ==
    /\ last.op = "exit" /\ last.exc /\ last.flow = MainFlow
    /\ ~hist[MainFlow].pure /\ hist[MainFlow].added # {}
    /\ Len(active[MainFlow]) = 1
    /\ active[MainFlow][1].context = [a |-> "1"]
    /\ Snapshot(MainFlow) = [a |-> "1"]

\* C3: a call made by one flow changes neither the value another flow reads
\* nor the scopes it holds, no call changes the default mapping, and a flow
\* never reads a field value only the other flow supplied.
C3_Isolation ==
    /\ [][/\ default_map' = default_map
          /\ \A f \in Flows : last'.flow # f =>
                 /\ ctxvar'[f] = ctxvar[f]
                 /\ active'[f] = active[f]]_vars
    /\ [](\A k \in DOMAIN Snapshot("A") : Snapshot("A")[k] # "2")
    /\ [](\A k \in DOMAIN Snapshot("B") : Snapshot("B")[k] # "1")

C3_Witness ==
    /\ last.flow = "B" /\ last.op = "enter"
    /\ Len(active["A"]) = 1 /\ Len(active["B"]) = 1
    /\ Snapshot("A") = [a |-> "1"]
    /\ Snapshot("B") = [a |-> "2", b |-> "2"]

\* C4 as stated: a flow with no active scope reads the empty mapping, after
\* any sequence of calls.
C4_EmptyWithoutScope ==
    \A f \in Flows : active[f] = <<>> => Snapshot(f) = EmptyMap

\* C4 as amended: a flow with no active scope, whose scopes were exited
\* innermost first, reads only fields that were given to add_context; it
\* reads the empty mapping when add_context was never called.
C4_OnlyAddedWithoutScope ==
    \A f \in Flows :
        (active[f] = <<>> /\ hist[f].lifo) =>
            Pairs(Snapshot(f)) \subseteq hist[f].added

C4_Witness ==
    /\ last.op = "exit" /\ last.flow = MainFlow
    /\ active[MainFlow] = <<>> /\ hist[MainFlow].lifo
    /\ hist[MainFlow].added # {}
    /\ Snapshot(MainFlow) = [b |-> "3"]

\* C6 as stated: scopes exited out of order never leave fields of an exited
\* scope visible once every scope has been exited (enter and exit calls only).
C6_NoLeftoverAfterExits ==
    \A f \in Flows :
        (hist[f].pure /\ active[f] = <<>>) => Snapshot(f) = EmptyMap

\* the record a log call made by flow f in the current state would produce
FormatNow(f, call) ==
    Format(DefaultFormatter, RecordOf(call), Snapshot(f), call.recording)

\* C5: clear_context, in any state, makes the calling flow's snapshot empty,
\* so that a record formatted next has no context member (other than a
\* call-site field of that name); the other flows' snapshots stay.
C5_ClearEmpties ==
    [][\A f \in Flows :
          clear_context(f) =>
              /\ Snapshot(f)' = EmptyMap
              /\ \A g \in Flows \ {f} : Snapshot(g)' = Snapshot(g)
              /\ \A call \in LogCalls :
                     (~MakeRecordRaises(call.extra) /\ "context" \notin DOMAIN call.extra)
                         => "context" \notin DOMAIN (FormatNow(f, call)')]_vars

C5_Witness ==
    /\ last.op = "clear_context" /\ last.flow = "A"
    /\ Len(active["A"]) = 2
    /\ Snapshot("A") = EmptyMap
    /\ Snapshot("B") = [a |-> "2", b |-> "3"]

(***************************************************************************)
(* Properties of the formatted record                                      *)
(***************************************************************************)
\* a log call was made and produced a record
Logged == last.op = "log" /\ last.raised = "" /\ ~last.dropped

\* the record shows value v for key k inside its context member
ContextShows(out, k, v) ==
    /\ "context" \in DOMAIN out
    /\ out["context"].kind = "map"
    /\ k \in DOMAIN out["context"].m
    /\ out["context"].m[k] = v

\* the call-site keys format() copies to the top level
Rendered(extra) == (DOMAIN extra) \ (skip_keys \cup UnderscoreKeys)

\* C7 as stated: for a call-site key that is also in the snapshot the record
\* shows the call-site value and not the context value.
C7_CallSiteHidesContext ==
    Logged =>
        \A k \in (DOMAIN last.call.extra) \cap (DOMAIN Snapshot(last.flow)) :
            /\ k \in DOMAIN last.out
            /\ last.out[k] = Str(last.call.extra[k])
            /\ ~ContextShows(last.out, k, Snapshot(last.flow)[k])

\* C7 as amended: every rendered call-site field is the top-level member of
\* its name, whatever member the context, the trace or the exception put
\* there (call-site fields are merged last); the snapshot, with the context
\* value of a colliding key, stays in the context member unless the call-site
\* field is itself named context.
C7_CallSiteTopLevel ==
    Logged =>
        /\ \A k \in Rendered(last.call.extra) :
               /\ k \in DOMAIN last.out
               /\ last.out[k] = Str(last.call.extra[k])
        /\ \A k \in (DOMAIN last.call.extra) \cap (DOMAIN Snapshot(last.flow)) :
               "context" \notin DOMAIN last.call.extra =>
                   ContextShows(last.out, k, Snapshot(last.flow)[k])

C7_Witness ==
    /\ Logged
    /\ last.call.extra = [a |-> "9", _p |-> "9"]
    /\ Snapshot(MainFlow) = [a |-> "1"]
    /\ last.out["a"] = Str("9")
    /\ last.out["context"] = MapV([a |-> "1"])

\* the key/value pairs of the scopes flow f has entered and not exited
ActivePairs(f) == UNION {Pairs(active[f][i].context) : i \in 1..Len(active[f])}

\* the key/value pairs that only scopes already exited contributed
OnlyExitedPairs(f) == hist[f].exited \ (ActivePairs(f) \cup hist[f].added)

RecordsWith(suffix) == {i \in 1..Len(records) : records[i].suffix = suffix}

\* C9 as stated: when the wrapped work completes normally, whatever it put
\* into the yielded dictionary, there is exactly one completion record, with
\* a non-negative duration_ms, no failure record, and no exception reaches
\* the caller.
C9_NormalCompletion ==
    (stg.pc = "done" /\ stg.outcome = "returned") =>
        /\ Cardinality(RecordsWith("_completed")) = 1
        /\ RecordsWith("_failed") = {}
        /\ \A i \in RecordsWith("_completed") :
               /\ records[i].extra["duration_ms"].kind = "num"
               /\ records[i].extra["duration_ms"].n >= 0
        /\ caller_exc = NoException

\* C10 as stated: when the wrapped work raises an ordinary error there is
\* exactly one failure record, with duration_ms and the error's type name
\* and message, no completion record, and the caller gets that same error.
C10_FailureReraised ==
    (stg.pc = "done" /\ stg.outcome = "raised" /\ stg.raised.ordinary) =>
        /\ Cardinality(RecordsWith("_failed")) = 1
        /\ RecordsWith("_completed") = {}
        /\ \A i \in RecordsWith("_failed") :
               /\ records[i].extra["duration_ms"].kind = "num"
               /\ records[i].extra["error_type"] = Str(stg.raised.type)
               /\ records[i].extra["error"] = Str(stg.raised.msg)
        /\ caller_exc = stg.raised

\* C11 as stated: when the wrapped work is cancelled, stage() emits one
\* failure record carrying the duration measured up to the cancellation,
\* and the cancellation then reaches the caller.
C11_CancelledStillLogged ==
    (stg.pc = "done" /\ stg.outcome = "raised" /\ ~stg.raised.ordinary) =>
        /\ Cardinality(RecordsWith("_failed")) = 1
        /\ \A i \in RecordsWith("_failed") :
               records[i].extra["duration_ms"] = Num(DurationMs(stg.start_time, clock))
        /\ caller_exc = stg.raised

\* the completion and failure records of the stage() call
EndRecords == RecordsWith("_completed") \cup RecordsWith("_failed")

\* the fields stage() itself writes into record i
OwnFields(i) ==
    IF records[i].suffix = "_failed" THEN {"duration_ms", "error", "error_type"}
    ELSE {"duration_ms"}

\* C12 as stated: the completion or failure record holds every key of the
\* yielded dictionary with the value it had when the work ended, and
\* duration_ms.
C12_FinalContents ==
    stg.pc = "done" =>
        \A i \in EndRecords :
            /\ "duration_ms" \in DOMAIN records[i].extra
            /\ \A k \in DOMAIN stg.stage_context :
                   /\ k \in DOMAIN records[i].extra
                   /\ records[i].extra[k] = Str(stg.stage_context[k])

\* C12 as amended: the fields of the completion or failure record are the
\* keys of the yielded dictionary and the fields stage() writes itself
\* (duration_ms, and error and error_type on failure); stage()'s fields
\* hold the measured duration and the error, also when the work used one
\* of these keys, and every other key holds its final value.
C12_FinalContentsUnderOwnFields ==
    stg.pc = "done" =>
        \A i \in EndRecords :
            /\ DOMAIN records[i].extra = DOMAIN stg.stage_context \cup OwnFields(i)
            /\ \A k \in DOMAIN stg.stage_context \ OwnFields(i) :
                   records[i].extra[k] = Str(stg.stage_context[k])
            /\ records[i].extra["duration_ms"] = Num(DurationMs(stg.start_time, clock))
            /\ records[i].suffix = "_failed" =>
                   /\ records[i].extra["error"] = Str(stg.raised.msg)
                   /\ records[i].extra["error_type"] = Str(stg.raised.type)

C12_Witness ==
    /\ stg.pc = "done" /\ stg.outcome = "returned"
    /\ stg.stage_context = [operation |-> "op", doc_id |-> "123",
                            chunks_created |-> "42", duration_ms |-> "x"]
    /\ Len(records) = 2
    /\ records[2].suffix = "_completed"
    /\ records[2].extra["chunks_created"] = Str("42")
    /\ records[2].extra["duration_ms"] = Num(1)

\* C13 as stated: once stage() was called with log_start true there is
\* exactly one start record and it precedes every other record of the call;
\* with log_start false there is none.
C13_StartRecord ==
    stg.pc # "idle" =>
        IF stg.log_start
        THEN /\ Cardinality(RecordsWith("_started")) = 1
             /\ records[1].suffix = "_started"
        ELSE RecordsWith("_started") = {}

(***************************************************************************)
(* Properties of the records written through the formatter (SpecFmt)      *)
(***************************************************************************)
\* C14 as stated: a log call with a call-site field named like a member of
\* the structured record succeeds, and the record written holds the
\* caller's value under that name.
C14_CallerValueWins ==
    last.op = "log" =>
        \A k \in (DOMAIN last.call.extra) \cap ReservedMembers :
            /\ last.raised = ""
            /\ ~last.dropped =>
                   /\ k \in DOMAIN last.out
                   /\ last.out[k] = Str(last.call.extra[k])

\* the values of mapping m that json.dumps has no encoding for
Unserializable(m) ==
    {k \in DOMAIN m : m[k] \in NeedsDefault \cup Unencodable}

\* C15 as stated: a log call with a value that cannot be serialized, among
\* its call-site fields or in the context snapshot, writes one record, in
\* which that value is its default string form and the other members are
\* what they are without it.
C15_UnserializableRendered ==
    LET extra == last.call.extra
        snap  == Snapshot(last.flow)
    IN (/\ last.op = "log" /\ last.raised = ""
        /\ Unserializable(extra) \cup Unserializable(snap) # {}) =>
           /\ ~last.dropped
           /\ \A k \in Rendered(extra) :
                  /\ k \in DOMAIN last.out
                  /\ last.out[k] = Str(JsonDefault(extra[k]))
           /\ (snap # EmptyMap /\ "context" \notin DOMAIN extra) =>
                  /\ "context" \in DOMAIN last.out
                  /\ last.out["context"] =
                         MapV([j \in DOMAIN snap |-> JsonDefault(snap[j])])

TraceMemberNames == {"trace_id", "span_id", "trace_flags"}

\* the record the last log call would have written with a recording span
WithTrace == Formatted(last.flow, [last.call EXCEPT !.recording = TRUE])

\* C19 as stated: without a recording span the record has none of
\* trace_id, span_id, trace_flags and its other members are those it has
\* with a recording span; with a recording span it has all three.
C19_TraceMembersOnlyWhenRecording ==
    Logged =>
        /\ ~last.call.recording =>
               /\ (DOMAIN last.out) \cap TraceMemberNames = {}
               /\ (DOMAIN last.out) \ TraceMemberNames = (DOMAIN WithTrace) \ TraceMemberNames
               /\ \A k \in (DOMAIN last.out) \ TraceMemberNames : last.out[k] = WithTrace[k]
        /\ last.call.recording => TraceMemberNames \subseteq DOMAIN last.out

\* C19 as amended: without a recording span the record has of trace_id,
\* span_id, trace_flags only those the log call gave as call-site fields,
\* with the caller's values; the rest as stated.
C19_TraceMembersFromSpanOrCaller ==
    Logged =>
        /\ ~last.call.recording =>
               /\ (DOMAIN last.out) \cap TraceMemberNames =
                      (DOMAIN last.call.extra) \cap TraceMemberNames
               /\ (DOMAIN last.out) \ TraceMemberNames = (DOMAIN WithTrace) \ TraceMemberNames
               /\ \A k \in (DOMAIN last.out) \ TraceMemberNames : last.out[k] = WithTrace[k]
        /\ last.call.recording => TraceMemberNames \subseteq DOMAIN last.out
        /\ \A k \in (DOMAIN last.call.extra) \cap TraceMemberNames :
               last.out[k] = Str(last.call.extra[k])

C19_Witness ==
    /\ Logged
    /\ ~last.call.recording
    /\ last.call.extra = [trace_id |-> "9"]
    /\ Snapshot(MainFlow) = [a |-> "1"]
    /\ last.out["trace_id"] = Str("9")
    /\ "span_id" \notin DOMAIN last.out
    /\ "context" \in DOMAIN last.out

(***************************************************************************)
(* Properties of configure_logging() (SpecConf)                            *)
(***************************************************************************)
\* the level the last configure_logging() call was asked for: its
\* argument, else LOG_LEVEL, else INFO
AskedLevel ==
    Upper(Or(configured.log_level, Or(configured.LOG_LEVEL, "INFO")))

\* C16 as stated: after configure_logging with level L every logger has L
\* as its effective level, and a logger call writes a record exactly when
\* its severity is at least L.
C16_LevelFilters ==
    (configured.done /\ AskedLevel \in LevelNames) =>
        /\ \A n \in LoggerNames : EffectiveLevel(levels, n) = LevelNo[AskedLevel]
        /\ written.made =>
               ((written.lines # <<>>) <=>
                    (LevelNo[written.levelname] >= LevelNo[AskedLevel]))

\* the loggers that get their level from a quieted logger
Quieted(n) == n \in QuietedLoggers \/ Parent(n) \in QuietedLoggers

\* the level that decides for logger n after configure_logging with L
DecidingLevel(n) ==
    IF Quieted(n) THEN LevelNo["WARNING"] ELSE LevelNo[AskedLevel]

\* C16 as amended: the same for every logger but urllib3, httpx, httpcore
\* and their descendants, which report WARNING whatever L is and write a
\* record exactly when its severity is at least WARNING.
C16_LevelFiltersButQuieted ==
    (configured.done /\ AskedLevel \in LevelNames) =>
        /\ \A n \in LoggerNames : EffectiveLevel(levels, n) = DecidingLevel(n)
        /\ written.made =>
               ((written.lines # <<>>) <=>
                    (LevelNo[written.levelname] >= DecidingLevel(written.name)))
        /\ (configured.log_level = "" /\ configured.LOG_LEVEL = "") =>
               levels["root"] = LevelNo["INFO"]

C16_Witness ==
    /\ configured.done
    /\ configured.log_level = "" /\ configured.LOG_LEVEL = "debug"
    /\ written.made /\ written.name = "urllib3.pool" /\ written.levelname = "INFO"
    /\ written.lines = <<>>
    /\ EffectiveLevel(levels, "app") = LevelNo["DEBUG"]

\* C17: after any number of configure_logging() calls the root logger has
\* exactly one handler, with the formatter and the level of the last call;
\* a logger call writes at most one line, with that formatter; and a call
\* repeated with the same arguments changes nothing.
C17_ConfigureReplaces ==
    /\ [](configured.done =>
            /\ Len(root_handlers) = 1
            /\ root_handlers[1].formatter.class =
                   (IF configured.json_output THEN "StructuredJSONFormatter"
                    ELSE "Formatter")
            /\ configured.json_output =>
                   root_handlers[1].formatter.service_name =
                       Or(configured.service_name, "unknown-service")
            /\ levels["root"] = GetLevel(AskedLevel)
            /\ written.made =>
                   /\ Len(written.lines) <= 1
                   /\ \A i \in 1..Len(written.lines) :
                          written.lines[i].formatter = root_handlers[1].formatter)
    /\ [][(configured.done /\ configured' = configured /\ written' = NothingWritten) =>
             (root_handlers' = root_handlers /\ levels' = levels)]_vars

C17_Witness ==
    /\ configured.done
    /\ configured.service_name = "my-service" /\ configured.log_level = "debug"
    /\ configured.json_output
    /\ environ = [LOG_LEVEL |-> "ERROR"]
    /\ levels["root"] = LevelNo["DEBUG"]
    /\ written.made /\ written.name = "app" /\ written.levelname = "DEBUG"
    /\ Len(written.lines) = 1
    /\ written.lines[1].formatter.service_name = "my-service"

(***************************************************************************)
(* Properties of DragonflyClient (SpecCache)                               *)
(***************************************************************************)
\* the value a method returns on failure
FailureValue(op) ==
    IF op \in {"retrieve", "get_ttl"} THEN ResNone
    ELSE IF op = "keys" THEN ResList({})
    ELSE ResBool(FALSE)

\* the last call met a failure of the store: the server was not up, the
\* data could not be pickled, or the ttl was refused
MetFailure ==
    \/ df_last.server # "up"
    \/ df_last.op = "store" /\ (df_last.data \in Unpicklable \/ df_last.ttl = 0)

\* what the last call returns when the server, being up, serves it
Served ==
    CASE df_last.op = "store"    -> ResBool(TRUE)
      [] df_last.op = "retrieve" -> IF df_last.before.present
                                    THEN ResData(df_last.before.value.pickled)
                                    ELSE ResNone
      [] df_last.op = "get_ttl"  -> IF df_last.before.present
                                    THEN ResInt(df_last.before.ttl) ELSE ResInt(-2)
      [] df_last.op = "keys"     -> ResList(df_last.held)
      [] OTHER                   -> ResBool(df_last.before.present)

\* C20: a DragonflyClient method called while the store fails returns its
\* failure value and logs one error; it never raises; and a call made
\* when the server is up again is served.
C20_FailureValueNeverRaises ==
    df_last.made =>
        /\ df_last.raised = ""
        /\ MetFailure =>
               /\ df_last.result = FailureValue(df_last.op)
               /\ df_last.errors = 1
        /\ ~MetFailure =>
               /\ df_last.result = Served
               /\ df_last.errors = 0
               /\ df_last.op = "store" =>
                      kv[df_last.key] = [present |-> TRUE,
                                         value |-> [pickled |-> df_last.data],
                                         ttl |-> IF df_last.ttl = TtlNone
                                                 THEN default_ttl ELSE df_last.ttl]

C20_Witness ==
    /\ df_failed
    /\ df_last.made /\ df_last.op = "retrieve" /\ df_last.server = "up"
    /\ df_last.result = ResData("{'data': [1, 2, 3]}")
    /\ df_last.errors = 0

(***************************************************************************)
(* Properties of add_context (SpecScoped)                                  *)
(***************************************************************************)
\* add_context(F) sets the snapshot to the previous one merged with F and
\* leaves every mapping that existed before the call as it was: the default
\* mapping and the snapshots the tokens of the active scopes hold
AddMerges ==
    [][last'.op = "add_context" =>
          /\ \E f \in Flows, context \in AddFields :
                /\ last'.flow = f
                /\ Snapshot(f)' = Merge(Snapshot(f), context)
          /\ default_map' = default_map
          /\ active' = active]_vars

\* C21: add_context(F) makes the snapshot the previous snapshot merged with
\* F, in any state, without changing the previous mapping; and a field given
\* to add_context only inside a scope is not visible once that scope has
\* exited
C21_AddedGoneAfterExit ==
    \A f \in Flows : hist[f].left \cap Pairs(Snapshot(f)) = {}

\* the same, for flows that exited every scope innermost first
AddedGoneAfterLifoExit ==
    \A f \in Flows : hist[f].lifo => hist[f].left \cap Pairs(Snapshot(f)) = {}

\* a field was added inside a scope, the scope exited innermost first, and
\* the field is gone
AddedGoneReached ==
    /\ hist[MainFlow].lifo
    /\ hist[MainFlow].left # {}
    /\ last.op = "exit"

(***************************************************************************)
(* Properties of get_dragonfly_client (SpecFactory)                        *)
(***************************************************************************)
\* C22: every call with singleton=True, concurrent first calls from several
\* threads included, returns the same object, and at most one object is ever
\* made the shared one
C22_OneSharedInstance ==
    /\ Cardinality(fact.returned) <= 1
    /\ Cardinality(fact.shared) <= 1

\* the same, as long as no call with singleton=True started while another
\* thread was inside the factory
OneSharedInstanceUnlessOverlapped ==
    ~fact.overlapped => /\ Cardinality(fact.returned) <= 1
                        /\ Cardinality(fact.shared) <= 1

\* a call with singleton=False returns an object that did not exist before
\* and leaves _default_client as it was
FreshLeavesShared ==
    [][\A t \in Threads :
          (threads'[t] # threads[t] /\ ~threads'[t].singleton) =>
              /\ threads'[t].result \notin 1..Len(objects)
              /\ threads'[t].result \in 1..Len(objects')
              /\ _default_client' = _default_client]_vars

====
